---- MODULE Spec2Model ----
(***************************************************************************)
(* RepoPac (src/RepoPac/RepoPac/main.cpp): a command-line tool that walks  *)
(* the targets named on its command line and assembles one Markdown report *)
(* in an std::ostringstream, which main writes to standard output at the   *)
(* end.                                                                    *)
(*                                                                         *)
(* File names and command-line tokens are byte strings (tuples of byte     *)
(* values), so that the comparison the sort uses is the real one.  File    *)
(* contents are abstract: a content token says how many leading bytes of   *)
(* which file were inserted.  Every text the program inserts into a stream *)
(* is one token [t, p, n, m] of the stream's sequence; a fence token       *)
(* stands for the three backquotes of a Markdown fence and its line end.   *)
(*                                                                         *)
(* Not modelled: file-system calls that fail or throw on a tree that is    *)
(* otherwise readable (is_git_repo uses the throwing overloads), trees     *)
(* that change during the run, and the translation a text-mode ifstream    *)
(* performs on platforms where text and binary mode differ.                *)
(***************************************************************************)
EXTENDS Integers, Sequences, FiniteSets, TLC

(***************************************************************************)
(* Bounds of the model                                                     *)
(***************************************************************************)
MaxArgs == 3
MaxTargets == 2
MaxRuns == 2

(***************************************************************************)
(* Program constants                                                       *)
(***************************************************************************)
kMaxBytes == 16 * 1024

(***************************************************************************)
(* Byte strings                                                            *)
(***************************************************************************)
DotGit     == <<46, 103, 105, 116>>                        \* ".git"
Dot        == <<46>>                                       \* "."
NameA      == <<65>>                                       \* "A"
NameB      == <<66>>                                       \* "B"
NameN      == <<78>>                                       \* "N"
NameSub    == <<97>>                                       \* "a"
NameJs     == <<97, 46, 106, 115>>                         \* "a.js"
NameBee    == <<98>>                                       \* "b"
NameCpp    == <<99, 46, 99, 112, 112>>                     \* "c.cpp"
OptH       == <<45, 104>>                                  \* "-h"
OptHelp    == <<45, 45, 104, 101, 108, 112>>               \* "--help"
OptV       == <<45, 118>>                                  \* "-v"
OptVersion == <<45, 45, 118, 101, 114, 115, 105, 111, 110>> \* "--version"
OptX       == <<45, 120>>                                  \* "-x"
ExtJson    == <<46, 106, 115, 111, 110>>                   \* ".json"
ExtJs      == <<46, 106, 115>>                             \* ".js"
ExtCpp     == <<46, 99, 112, 112>>                         \* ".cpp"
ExtHpp     == <<46, 104, 112, 112>>                        \* ".hpp"

\* std::string / fs::path operator< on one path component: lexicographic
\* on bytes, a proper prefix first.
RECURSIVE LexLess(_, _)
LexLess(a, b) ==
    IF b = <<>> THEN FALSE
    ELSE IF a = <<>> THEN TRUE
    ELSE IF Head(a) # Head(b) THEN Head(a) < Head(b)
    ELSE LexLess(Tail(a), Tail(b))

\* The lambda handed to std::sort: a.path().filename() < b.path().filename()
FilenameLess(a, b) == LexLess(a.name, b.name)

RECURSIVE InsertSorted(_, _)
InsertSorted(e, s) ==
    IF s = <<>> THEN <<e>>
    ELSE IF FilenameLess(e, Head(s)) THEN <<e>> \o s
    ELSE <<Head(s)>> \o InsertSorted(e, Tail(s))

RECURSIVE SortFrom(_, _)
SortFrom(s, acc) ==
    IF s = <<>> THEN acc ELSE SortFrom(Tail(s), InsertSorted(Head(s), acc))

\* The entries left in the order the enumeration returned them.
UnsortedEntries(entries) == entries

\* std::sort(entries.begin(), entries.end(), FilenameLess)
SortEntries(entries) == SortFrom(entries, <<>>)

\* fs::path::extension() of a file name: from the last '.' on, empty when
\* there is none, when the only one is the first byte, or for "." and "..".
RECURSIVE LastDot(_, _)
LastDot(name, i) ==
    IF i = 0 THEN 0
    ELSE IF name[i] = 46 THEN i
    ELSE LastDot(name, i - 1)

Extension(name) ==
    LET d == LastDot(name, Len(name))
    IN  IF name = Dot \/ name = <<46, 46>> \/ d <= 1 THEN <<>>
        ELSE SubSeq(name, d, Len(name))

(***************************************************************************)
(* The file system.  A node is what status() reports for a directory entry *)
(* (symbolic links followed): kind "dir", "file", "other" (FIFO, device,   *)
(* socket) or "dangling" (a symbolic link whose target does not exist);    *)
(* link says that the entry itself is a symbolic link.  A directory keeps  *)
(* its entries in the order the entries lie on disk.                       *)
(***************************************************************************)
Node(kind, link, size, ok, kids) ==
    [kind |-> kind, link |-> link, size |-> size, ok |-> ok, kids |-> kids]

Entry(name, node) == [name |-> name, node |-> node]

NoNode      == Node("none", FALSE, 0, FALSE, <<>>)
FileNode(size, ok) == Node("file", FALSE, size, ok, <<>>)
LinkTo(node) == [node EXCEPT !.link = TRUE]
OtherNode   == Node("other", FALSE, 0, FALSE, <<>>)
Dangling    == Node("dangling", TRUE, 0, FALSE, <<>>)
DirNode(kids) == Node("dir", FALSE, 0, TRUE, kids)
EmptyDir    == DirNode(<<>>)

\* A directory from a sequence of (name, node-or-NoNode): absent entries dropped.
RECURSIVE Present(_)
Present(es) ==
    IF es = <<>> THEN <<>>
    ELSE IF Head(es).node.kind = "none" THEN Present(Tail(es))
    ELSE <<Head(es)>> \o Present(Tail(es))

MkDir(es) == DirNode(Present(es))


\* Paths are sequences of components.  A path is resolved from the working
\* directory; the component "." stays where it is.
RECURSIVE Lookup(_, _)
Lookup(kids, name) ==
    IF kids = <<>> THEN NoNode
    ELSE IF Head(kids).name = name THEN Head(kids).node
    ELSE Lookup(Tail(kids), name)

RECURSIVE ResolveFrom(_, _)
ResolveFrom(node, p) ==
    IF p = <<>> THEN node
    ELSE IF node.kind # "dir" THEN NoNode
    ELSE IF Head(p) = Dot THEN ResolveFrom(node, Tail(p))
    ELSE ResolveFrom(Lookup(node.kids, Head(p)), Tail(p))

\* fs::exists / fs::is_directory / fs::is_regular_file on a status
Exists(node)        == node.kind \in {"dir", "file", "other"}
IsDirectory(node)   == node.kind = "dir"
\* "Anything that exists and is not a directory" taken for a regular file.
IsNotDirectory(node) == node.kind \in {"file", "other"}
IsRegularFile(node) == node.kind = "file"

\* The order in which fs::directory_iterator returns the entries of a
\* directory is unspecified: sh = [rot, rev] rotates and possibly reverses
\* the on-disk order.
Rotate(s, r) ==
    IF s = <<>> THEN s
    ELSE LET k == r % Len(s)
         IN  SubSeq(s, k + 1, Len(s)) \o SubSeq(s, 1, k)

Reverse(s) == [j \in 1..Len(s) |-> s[Len(s) + 1 - j]]

MaxRot == 3
Shuffles == [rot : 0..MaxRot, rev : BOOLEAN]

DirectoryIterator(node, sh) ==
    LET r == Rotate(node.kids, sh.rot)
    IN  IF sh.rev THEN Reverse(r) ELSE r

(***************************************************************************)
(* Streams.  An ostringstream is its buffer and its failbit; an insertion  *)
(* into a stream that is not good() inserts nothing.                       *)
(***************************************************************************)
Tok(t, p, n, m) == [t |-> t, p |-> p, n |-> n, m |-> m]
Text(t) == Tok(t, <<>>, 0, 0)

GoodStream == [buf |-> <<>>, fail |-> FALSE]

\* operator<< of a string or character
Put(out, tok) ==
    IF out.fail THEN out ELSE [out EXCEPT !.buf = Append(@, tok)]

\* operator<< of a streambuf if inserting no character left the stream good
PutRdbufNoFail(out, p, n) == Put(out, Tok("content", p, n, 0))

\* operator<< of a streambuf: inserts the n bytes left in the file; when it
\* inserts no character it sets failbit on the output stream.
PutRdbuf(out, p, n) ==
    IF out.fail THEN out
    ELSE IF n = 0 THEN [out EXCEPT !.fail = TRUE]
    ELSE Put(out, Tok("content", p, n, 0))

Min(a, b) == IF a <= b THEN a ELSE b

\* The opening fence print_file chooses from the extension.
FenceFor(ext) ==
    IF ext = ExtJson THEN "fence json"
    ELSE IF ext = ExtJs THEN "fence javascript"
    ELSE IF ext = ExtCpp \/ ext = ExtHpp THEN "fence cpp"
    ELSE "fence"

Fences == {"fence json", "fence javascript", "fence cpp", "fence"}

\* print_file(out, p): io = [out, err]; node is what p resolves to.
print_file(io, p, node) ==
    LET o1 == Put(io.out, Tok("### File: ", p, 0, 0))
        o2 == Put(o1, Text(FenceFor(Extension(p[Len(p)]))))
        sz == node.size
        o4 == Put(IF ~node.ok THEN o2
                  ELSE IF sz <= kMaxBytes
                       THEN Put(PutRdbuf(o2, p, sz), Text("newline"))
                  ELSE Put(Put(o2, Tok("content", p, Min(kMaxBytes, sz), 0)),
                           Tok("truncated", <<>>, sz, kMaxBytes)),
                  Text("fence end"))
    IN  [out |-> o4,
         err |-> IF node.ok THEN io.err
                 ELSE Append(io.err, Text("(Could not open file)"))]

\* collect_files(root, files): the loop over the sorted entries, then the
\* function itself.
RECURSIVE collect_entries(_, _, _, _)
RECURSIVE collect_files(_, _, _, _)
collect_entries(entries, root, files, sh) ==
    IF entries = <<>> THEN files
    ELSE LET e == Head(entries)
             epath == Append(root, e.name)
             fs1 == IF IsDirectory(e.node)
                        THEN collect_files(epath, e.node, files, sh)
                    ELSE IF IsRegularFile(e.node) THEN Append(files, epath)
                    ELSE files
         IN  collect_entries(Tail(entries), root, fs1, sh)

collect_files(root, node, files, sh) ==
    IF ~Exists(node) THEN files
    ELSE IF IsDirectory(node)
         THEN collect_entries(SortEntries(DirectoryIterator(node, sh)),
                              root, files, sh)
    ELSE IF IsRegularFile(node) THEN Append(files, root)
    ELSE files

\* print_structure(out, root, depth)
RECURSIVE structure_entries(_, _, _, _, _)
RECURSIVE print_structure(_, _, _, _, _)
structure_entries(out, entries, root, depth, sh) ==
    IF entries = <<>> THEN out
    ELSE LET e == Head(entries)
             epath == Append(root, e.name)
             o1 == IF IsDirectory(e.node)
                       THEN print_structure(
                                Put(out, Tok("entry/", epath, depth * 2, 0)),
                                epath, e.node, depth + 1, sh)
                   ELSE IF IsRegularFile(e.node)
                       THEN Put(out, Tok("entry", epath, depth * 2, 0))
                   ELSE out
         IN  structure_entries(o1, Tail(entries), root, depth, sh)

print_structure(out, root, node, depth, sh) ==
    IF ~Exists(node) THEN out
    ELSE IF IsDirectory(node)
         THEN structure_entries(out, SortEntries(DirectoryIterator(node, sh)),
                                root, depth, sh)
    ELSE out

\* is_git_repo(dir): exists(dir/".git") && is_directory(dir/".git")
is_git_repo(node) ==
    LET g == ResolveFrom(node, <<DotGit>>)
    IN  Exists(g) /\ IsDirectory(g)

\* print_dir up to the structure section (main.cpp 125-141)
print_dir_head(out, p, node, sh) ==
    LET o1 == Put(out, Text("# Repository Context"))
        o2 == Put(o1, Text("## File System Location"))
        o3 == Put(o2, Tok("absolute", p, 0, 0))
        o4 == IF is_git_repo(node) THEN Put(o3, Text("## Git Info"))
              ELSE Put(o3, Text("Not a git repository"))
        o5 == Put(Put(o4, Text("## Structure")), Text("fence"))
        o6 == print_structure(o5, p, node, 0, sh)
    IN  Put(o6, Text("fence end"))


(***************************************************************************)
(* Inputs: the trees of the working directory and the argument lists.      *)
(* The working directory holds the targets "A" (a directory) and "B";      *)
(* "N" never exists.  Entries are written in on-disk order, which is not   *)
(* the sorted order.                                                       *)
(***************************************************************************)
SubDirs ==
    { MkDir(<<Entry(NameCpp, c), Entry(DotGit, g)>>) :
        c \in {NoNode, FileNode(0, TRUE), FileNode(1, TRUE)},
        g \in {NoNode, EmptyDir} }

BeeMenu == {NoNode, FileNode(1, TRUE), OtherNode}
JsMenu  == {NoNode, FileNode(0, TRUE), FileNode(kMaxBytes, TRUE),
            FileNode(kMaxBytes + 1, TRUE), FileNode(kMaxBytes, FALSE),
            LinkTo(FileNode(1, TRUE))}
SubMenu == {NoNode} \cup SubDirs
           \cup {LinkTo(MkDir(<<Entry(NameCpp, FileNode(1, TRUE))>>))}
GitMenu == {NoNode, EmptyDir, FileNode(1, TRUE), LinkTo(EmptyDir), Dangling}

ADirs ==
    { MkDir(<<Entry(NameBee, b), Entry(NameJs, j), Entry(NameSub, a),
              Entry(DotGit, g)>>) :
        b \in BeeMenu, j \in JsMenu, a \in SubMenu, g \in GitMenu }

RichTrees ==
    { MkDir(<<Entry(NameB, fb), Entry(NameA, d)>>) :
        fb \in {FileNode(0, TRUE)}, d \in ADirs }

FewTrees ==
    { MkDir(<<Entry(NameB, fb), Entry(NameA, d)>>) :
        fb \in {FileNode(1, TRUE), OtherNode,
                MkDir(<<Entry(NameJs, FileNode(1, TRUE))>>)},
        d \in { MkDir(<<Entry(NameJs, FileNode(0, TRUE)),
                        Entry(DotGit, EmptyDir)>>),
                MkDir(<<Entry(NameBee, FileNode(1, TRUE)),
                        Entry(NameJs, FileNode(kMaxBytes, FALSE))>>) } }

SeqUpTo(S, n) == UNION { [1..k -> S] : k \in 0..n }

ArgTokens == {NameA, NameB, NameN, Dot, OptH, OptHelp, OptV, OptVersion, OptX}
PathTokens == {NameA, NameB, NameN, Dot}

TargetLists == SeqUpTo({NameA, NameB}, MaxTargets) \ {<<>>}

(***************************************************************************)
(* State                                                                   *)
(***************************************************************************)
VARIABLES
    cwd,     \* the tree under the working directory (never changes)
    argv,    \* argv[1..argc-1]
    pc,      \* where main is: "parse", "loop", "collect", "files", "exit"
    i,       \* main's index into argv
    paths,   \* main's vector of target paths
    t,       \* position of the range-for over paths
    files,   \* print_dir's vector of collected files
    f,       \* position of the range-for over files
    out,     \* main's ostringstream: [buf, fail]
    err,     \* what was written to std::cerr
    cout,    \* what was written to std::cout
    status,  \* the exit status, -1 while the process runs
    mark,    \* history: length of out.buf when the current target began
    run,     \* number of the current invocation
    prev     \* history: [cout, status] of the previous invocation

vars == <<cwd, argv, pc, i, paths, t, files, f, out, err, cout, status,
          mark, run, prev>>

NoPrev == [cout |-> <<>>, status |-> -1]

StartOfMain ==
    /\ pc = "parse" /\ i = 1 /\ paths = <<>> /\ t = 1
    /\ files = <<>> /\ f = 1
    /\ out = GoodStream /\ err = <<>> /\ cout = <<>> /\ status = -1
    /\ mark = 0

Init ==
    /\ \/ argv \in TargetLists /\ cwd \in RichTrees
       \/ argv \in SeqUpTo(ArgTokens, MaxArgs) /\ cwd \in FewTrees
    /\ StartOfMain
    /\ run = 1 /\ prev = NoPrev

Resolve(p) == ResolveFrom(cwd, p)

\* pexists, is_dir, is_file of main.cpp 28-41
pexists(p) == Exists(Resolve(p))
is_dir(p)  == IsDirectory(Resolve(p))
is_file(p) == IsRegularFile(Resolve(p))

\* The loop of print_dir over the collected files (main.cpp 149-151), from
\* position k on.
RECURSIVE print_files(_, _, _)
print_files(io, fl, k) ==
    IF k > Len(fl) THEN io
    ELSE print_files(print_file(io, fl[k], Resolve(fl[k])), fl, k + 1)

\* print_dir(out, p) as a whole (main.cpp 124-153)
print_dir(io, p, sh) ==
    LET o1 == print_dir_head(io.out, p, Resolve(p), sh)
        fl == collect_files(p, Resolve(p), <<>>, sh)
        o2 == IF fl # <<>> THEN Put(o1, Text("## File Contents")) ELSE o1
    IN  print_files([out |-> o2, err |-> io.err], fl, 1)

\* One iteration of main's loop over the targets (main.cpp 184-196)
process_target(io, p, sh) ==
    IF ~pexists(p)
        THEN [io EXCEPT !.err = Append(@,
                 Tok("is not a valid directory or file", p, 0, 0))]
    ELSE IF is_dir(p) THEN print_dir(io, p, sh)
    ELSE IF is_file(p)
        THEN print_file([io EXCEPT !.out = Put(@, Text("## File Contents"))],
                        p, Resolve(p))
    ELSE io

(***************************************************************************)
(* main: the argument loop (main.cpp 160-178)                              *)
(***************************************************************************)
Parsing == pc = "parse" /\ i <= Len(argv)

IsHelp(arg)    == arg = OptH \/ arg = OptHelp
IsVersion(arg) == arg = OptV \/ arg = OptVersion
IsOption(arg)  == arg # <<>> /\ arg[1] = 45

ParseHelp ==
    /\ Parsing /\ IsHelp(argv[i])
    /\ cout' = Append(cout, Text("help"))
    /\ status' = 0 /\ pc' = "exit"
    /\ UNCHANGED <<cwd, argv, i, paths, t, files, f, out, err, mark, run, prev>>

ParseVersion ==
    /\ Parsing /\ ~IsHelp(argv[i]) /\ IsVersion(argv[i])
    /\ cout' = Append(cout, Text("repopac 0.1.0"))
    /\ status' = 0 /\ pc' = "exit"
    /\ UNCHANGED <<cwd, argv, i, paths, t, files, f, out, err, mark, run, prev>>

\* An unknown option that is reported and then skipped instead of ending
\* the process.
ParseUnknownSkips ==
    /\ Parsing /\ ~IsHelp(argv[i]) /\ ~IsVersion(argv[i]) /\ IsOption(argv[i])
    /\ err' = err \o <<Tok("Unknown option: ", <<argv[i]>>, 0, 0),
                       Text("Use -h or --help for usage.")>>
    /\ i' = i + 1
    /\ UNCHANGED <<cwd, argv, pc, paths, t, files, f, out, cout, status, mark,
                   run, prev>>

ParseUnknown ==
    /\ Parsing /\ ~IsHelp(argv[i]) /\ ~IsVersion(argv[i]) /\ IsOption(argv[i])
    /\ err' = err \o <<Tok("Unknown option: ", <<argv[i]>>, 0, 0),
                       Text("Use -h or --help for usage.")>>
    /\ status' = 1 /\ pc' = "exit"
    /\ UNCHANGED <<cwd, argv, i, paths, t, files, f, out, cout, mark, run, prev>>

ParsePath ==
    /\ Parsing /\ ~IsHelp(argv[i]) /\ ~IsVersion(argv[i]) /\ ~IsOption(argv[i])
    /\ paths' = Append(paths, argv[i])
    /\ i' = i + 1
    /\ UNCHANGED <<cwd, argv, pc, t, files, f, out, err, cout, status, mark,
                   run, prev>>

\* main.cpp 180-184: the default target, then the loop over paths begins
EndParse ==
    /\ pc = "parse" /\ i > Len(argv)
    /\ paths' = IF paths = <<>> THEN <<Dot>> ELSE paths
    /\ pc' = "loop" /\ t' = 1
    /\ UNCHANGED <<cwd, argv, i, files, f, out, err, cout, status, mark,
                   run, prev>>

(***************************************************************************)
(* main: the loop over the targets (main.cpp 184-196) and print_dir        *)
(***************************************************************************)
AtTarget == pc = "loop" /\ t <= Len(paths)
Target   == <<paths[t]>>

TargetMissing ==
    /\ AtTarget /\ ~pexists(Target)
    /\ err' = Append(err, Tok("is not a valid directory or file", Target, 0, 0))
    /\ t' = t + 1
    /\ UNCHANGED <<cwd, argv, pc, i, paths, files, f, out, cout, status, mark,
                   run, prev>>

\* print_dir, main.cpp 125-141
TargetDir ==
    /\ AtTarget /\ pexists(Target) /\ is_dir(Target)
    /\ \E sh \in Shuffles :
          out' = print_dir_head(out, Target, Resolve(Target), sh)
    /\ mark' = Len(out.buf)
    /\ files' = <<>> /\ f' = 1
    /\ pc' = "collect"
    /\ UNCHANGED <<cwd, argv, i, paths, t, err, cout, status, run, prev>>

\* print_dir, main.cpp 144-148
CollectFiles ==
    /\ pc = "collect"
    /\ \E sh \in Shuffles :
          files' = collect_files(Target, Resolve(Target), <<>>, sh)
    /\ out' = IF files' # <<>> THEN Put(out, Text("## File Contents")) ELSE out
    /\ f' = 1
    /\ pc' = "files"
    /\ UNCHANGED <<cwd, argv, i, paths, t, err, cout, status, mark, run, prev>>

\* print_dir, main.cpp 149-151: one iteration
PrintNextFile ==
    /\ pc = "files" /\ f <= Len(files)
    /\ LET io == print_file([out |-> out, err |-> err], files[f],
                            Resolve(files[f]))
       IN  out' = io.out /\ err' = io.err
    /\ f' = f + 1
    /\ UNCHANGED <<cwd, argv, pc, i, paths, t, files, cout, status, mark,
                   run, prev>>

\* print_dir returns
EndDir ==
    /\ pc = "files" /\ f > Len(files)
    /\ pc' = "loop" /\ t' = t + 1
    /\ UNCHANGED <<cwd, argv, i, paths, files, f, out, err, cout, status,
                   mark, run, prev>>

\* main.cpp 192-195
TargetFile ==
    /\ AtTarget /\ pexists(Target) /\ ~is_dir(Target) /\ is_file(Target)
    /\ LET io == print_file([out |-> Put(out, Text("## File Contents")),
                             err |-> err], Target, Resolve(Target))
       IN  out' = io.out /\ err' = io.err
    /\ mark' = Len(out.buf)
    /\ t' = t + 1
    /\ UNCHANGED <<cwd, argv, pc, i, paths, files, f, cout, status, run, prev>>

\* a target that exists and is neither directory nor regular file
TargetOther ==
    /\ AtTarget /\ pexists(Target) /\ ~is_dir(Target) /\ ~is_file(Target)
    /\ t' = t + 1
    /\ UNCHANGED <<cwd, argv, pc, i, paths, files, f, out, err, cout, status,
                   mark, run, prev>>

\* main.cpp 198-200
Flush ==
    /\ pc = "loop" /\ t > Len(paths)
    /\ cout' = cout \o out.buf
    /\ status' = 0 /\ pc' = "exit"
    /\ UNCHANGED <<cwd, argv, i, paths, t, files, f, out, err, mark, run, prev>>

\* The same command is run again on the unchanged tree.
Rerun ==
    /\ pc = "exit" /\ run < MaxRuns
    /\ prev' = [cout |-> cout, status |-> status]
    /\ run' = run + 1
    /\ pc' = "parse" /\ i' = 1 /\ paths' = <<>> /\ t' = 1
    /\ files' = <<>> /\ f' = 1
    /\ out' = GoodStream /\ err' = <<>> /\ cout' = <<>> /\ status' = -1
    /\ mark' = 0
    /\ UNCHANGED <<cwd, argv>>

Next ==
    \/ ParseHelp \/ ParseVersion \/ ParseUnknown \/ ParsePath \/ EndParse
    \/ TargetMissing \/ TargetDir \/ CollectFiles \/ PrintNextFile \/ EndDir
    \/ TargetFile \/ TargetOther \/ Flush \/ Rerun

Spec == Init /\ [][Next]_vars

TypeOK ==
    /\ pc \in {"parse", "loop", "collect", "files", "exit"}
    /\ status \in {-1, 0, 1}
    /\ out.fail \in BOOLEAN
    /\ run \in 1..MaxRuns


(***************************************************************************)
(* Vocabulary of the properties                                            *)
(***************************************************************************)
IsPrefix(a, b) == Len(a) <= Len(b) /\ SubSeq(b, 1, Len(a)) = a

\* What the current target has added to the report so far.
Seg == SubSeq(out.buf, mark + 1, Len(out.buf))

InDir    == pc \in {"collect", "files"}
DirDone  == pc = "files" /\ f > Len(files)
RootNode == Resolve(Target)

\* Every entry below a directory, at any depth: [p, node].
RECURSIVE Descendants(_, _)
Descendants(p, node) ==
    IF node.kind # "dir" THEN {}
    ELSE UNION { {[p |-> Append(p, node.kids[k].name),
                   node |-> node.kids[k].node]}
                 \cup Descendants(Append(p, node.kids[k].name),
                                  node.kids[k].node) :
                 k \in 1..Len(node.kids) }

\* Entries the walk has to report, and the regular files at or below a path.
Listed(node) == node.kind \in {"dir", "file"}

RegularAt(p, node) ==
    {e.p : e \in {d \in Descendants(p, node) \cup {[p |-> p, node |-> node]} :
                     d.node.kind = "file"}}

\* Tokens of the current segment that were written for path q or below it.
TokensUnder(q) ==
    {k \in 1..Len(Seg) : Seg[k].t # "absolute" /\ IsPrefix(q, Seg[k].p)}
LinesUnder(q) ==
    {k \in 1..Len(Seg) : Seg[k].t \in {"entry", "entry/"} /\ IsPrefix(q, Seg[k].p)}
FilesUnder(q) == {k \in 1..Len(files) : IsPrefix(q, files[k])}

(***************************************************************************)
(* C3  An unknown option is fatal                                          *)
(***************************************************************************)
\* The first option of the argument list is not help or version.
FirstOption ==
    IF \E k \in 1..Len(argv) : IsOption(argv[k])
    THEN CHOOSE k \in 1..Len(argv) :
            IsOption(argv[k]) /\ \A j \in 1..(k - 1) : ~IsOption(argv[j])
    ELSE 0

UnknownOptionFirst ==
    FirstOption > 0 /\ ~IsHelp(argv[FirstOption]) /\ ~IsVersion(argv[FirstOption])

\* C3: when the argument list holds an unknown option that no help or
\* version flag precedes, main never leaves the argument loop, never gets
\* past that token, writes nothing to standard output (nor into the report
\* buffer), and when the process has ended its status is 1 and it ended at
\* that token; target paths before or after the token change nothing.
C3_UnknownOptionFatal ==
    UnknownOptionFirst =>
        /\ pc \in {"parse", "exit"}
        /\ i <= FirstOption
        /\ cout = <<>> /\ out.buf = <<>>
        /\ pc = "exit" => (status = 1 /\ i = FirstOption /\ err # <<>>)

\* the process has ended on an unknown option that stands between two
\* valid target paths
C3_Witness ==
    /\ pc = "exit" /\ status = 1
    /\ Len(argv) >= 3 /\ FirstOption = 2
    /\ argv[1] = NameA /\ argv[3] = NameB
    /\ paths = <<NameA>>

(***************************************************************************)
(* C6  Determinism                                                         *)
(***************************************************************************)
\* C6: a second invocation with the same arguments on the unchanged tree
\* ends with the same bytes on standard output and the same exit status as
\* the one before it, whatever order the directory enumerations returned
\* the entries in, in either invocation.
C6_Deterministic ==
    (run > 1 /\ pc = "exit") => (cout = prev.cout /\ status = prev.status)

\* a second invocation has ended after reporting a directory in which at
\* least three entries are listed, among them a subdirectory
C6_Witness ==
    /\ run > 1 /\ pc = "exit" /\ status = 0
    /\ Cardinality({k \in 1..Len(cout) :
                      cout[k].t \in {"entry", "entry/"} /\ cout[k].n = 0}) >= 3
    /\ \E k \in 1..Len(cout) : cout[k].t = "entry" /\ cout[k].n = 2

(***************************************************************************)
(* C9  Entries that are neither directory nor regular file                 *)
(***************************************************************************)
\* C9 as stated: in the walk of a directory root, an entry that is a
\* symbolic link (whatever it points to) or is otherwise neither a
\* directory nor a regular file contributes nothing: no line of the
\* structure, no element of the flattened list, nothing below it.
C9_SymlinksIgnored ==
    InDir =>
        \A e \in Descendants(Target, RootNode) :
            (e.node.link \/ e.node.kind \notin {"dir", "file"}) =>
                /\ TokensUnder(e.p) = {}
                /\ pc = "files" => FilesUnder(e.p) = {}

\* C9 amended: an entry whose status, symbolic links followed, is neither
\* directory nor regular file (FIFO, device, socket, dangling link)
\* contributes nothing: no line of the structure, no element of the
\* flattened list, nothing below it.  A symbolic link is walked as what it
\* points to: a link to a regular file is appended to the flattened list,
\* a link to a directory is recursed into.
C9_NonFilesIgnored ==
    InDir =>
        \A e \in Descendants(Target, RootNode) :
            /\ e.node.kind \notin {"dir", "file"} =>
                  /\ TokensUnder(e.p) = {}
                  /\ pc = "files" => FilesUnder(e.p) = {}
            /\ (pc = "files" /\ e.node.link /\ Listed(e.node)) =>
                  \A q \in RegularAt(e.p, e.node) :
                      \E k \in 1..Len(files) : files[k] = q

\* a directory root that holds a FIFO or device, a dangling link, a link
\* to a regular file and a link to a directory with a file in it has been
\* walked and its files rendered
C9_Witness ==
    /\ DirDone /\ files # <<>> /\ ~out.fail
    /\ \E e \in Descendants(Target, RootNode) : e.node.kind = "other"
    /\ \E e \in Descendants(Target, RootNode) : e.node.kind = "dangling"
    /\ \E e \in Descendants(Target, RootNode) :
          e.node.kind = "file" /\ e.node.link
    /\ \E e \in Descendants(Target, RootNode) :
          e.node.kind = "dir" /\ e.node.link /\ RegularAt(e.p, e.node) # {}

(***************************************************************************)
(* Vocabulary of the properties about rendered files                       *)
(***************************************************************************)
Header(p)  == Tok("### File: ", p, 0, 0)
HeaderPositions(seq, p) == {k \in 1..Len(seq) : seq[k] = Header(p)}
CountOf(seq, tag) == Cardinality({k \in 1..Len(seq) : seq[k].t = tag})

\* The tokens of seq from position q up to the next file header or the end.
BlockEnd(seq, q) ==
    IF \E k \in (q + 1)..Len(seq) : seq[k].t = "### File: "
    THEN (CHOOSE k \in (q + 1)..Len(seq) :
             /\ seq[k].t = "### File: "
             /\ \A j \in (q + 1)..(k - 1) : seq[j].t # "### File: ") - 1
    ELSE Len(seq)
Block(seq, q) == SubSeq(seq, q, BlockEnd(seq, q))

\* A main loop iteration has just rendered the regular file paths[t-1].
FileDone == pc = "loop" /\ t > 1 /\ is_file(<<paths[t - 1]>>)

\* The files print_file has been called for, in the order of the calls,
\* when the current target is finished.
Rendered ==
    IF DirDone THEN files
    ELSE IF FileDone THEN <<<<paths[t - 1]>>>>
    ELSE <<>>

BytesShown(blk) ==
    LET cs == {k \in 1..Len(blk) : blk[k].t = "content"}
    IN  IF cs = {} THEN 0 ELSE blk[CHOOSE k \in cs : TRUE].n

(***************************************************************************)
(* C2  The 16384-byte cap                                                  *)
(***************************************************************************)
\* C2: the block print_file writes for an openable file of size s ends with
\* the closing fence; for s <= 16384 it shows all s bytes and has no
\* truncation notice; for s > 16384 it shows the first 16384 bytes followed
\* by the notice naming s and 16384.  (Stated only for blocks whose header
\* reached the report, that is for calls on a stream that was still good.)
C2_CapBoundary ==
    \A k \in 1..Len(Rendered) :
        LET p    == Rendered[k]
            node == Resolve(p)
        IN  \A q \in HeaderPositions(Seg, p) :
              LET blk == Block(Seg, q)
              IN  node.ok =>
                    /\ Len(blk) >= 3
                    /\ blk[2].t \in Fences
                    /\ blk[Len(blk)] = Text("fence end")
                    /\ node.size <= 16384 =>
                          /\ BytesShown(blk) = node.size
                          /\ CountOf(blk, "truncated") = 0
                    /\ node.size > 16384 =>
                          /\ blk[3] = Tok("content", p, 16384, 0)
                          /\ blk[4] = Tok("truncated", <<>>, node.size, 16384)
                          /\ Len(blk) = 5

(***************************************************************************)
(* C5  A file that cannot be opened                                        *)
(***************************************************************************)
\* C5: when print_dir has rendered its files, every file that could not be
\* opened has a section made of header, opening fence and closing fence
\* with nothing between, a diagnostic is on the error stream, every file
\* after it in the flattened list has its section too, and a run without
\* options ends with status 0.
C5_UnreadableFileSkipped ==
    /\ DirDone =>
         \A k \in 1..Len(files) :
            ~Resolve(files[k]).ok =>
               /\ \E q \in 1..(Len(Seg) - 2) :
                     /\ Seg[q] = Header(files[k])
                     /\ Seg[q + 1].t \in Fences
                     /\ Seg[q + 2] = Text("fence end")
               /\ CountOf(err, "(Could not open file)") >= 1
               /\ \A j \in (k + 1)..Len(files) :
                     HeaderPositions(Seg, files[j]) # {}
    /\ (pc = "exit" /\ \A k \in 1..Len(argv) : ~IsOption(argv[k])) => status = 0

(***************************************************************************)
(* C7  The order of the parts print_dir appends                            *)
(***************************************************************************)
StructureEnd ==
    CHOOSE k \in 7..Len(Seg) :
        /\ Seg[k] = Text("fence end")
        /\ \A j \in 7..(k - 1) : Seg[j].t \in {"entry", "entry/"}

\* C7: the segment of a directory root is: heading, location heading and
\* absolute path, one version-control part, the structure heading with the
\* tree inside a fence, and then the file-contents heading if and only if
\* the flattened list is not empty, followed by one block per file of the
\* list, in the order of the list, each closed by its fence.  (Stated for
\* roots whose segment was begun on a stream that was still good.)
C7_FixedOrder ==
    (DirDone /\ Seg # <<>>) =>
        /\ Len(Seg) >= 7
        /\ Seg[1] = Text("# Repository Context")
        /\ Seg[2] = Text("## File System Location")
        /\ Seg[3] = Tok("absolute", Target, 0, 0)
        /\ Seg[4].t \in {"## Git Info", "Not a git repository"}
        /\ Seg[5] = Text("## Structure")
        /\ Seg[6] = Text("fence")
        /\ \E k \in 7..Len(Seg) :
              /\ Seg[k] = Text("fence end")
              /\ \A j \in 7..(k - 1) : Seg[j].t \in {"entry", "entry/"}
        /\ LET rest == SubSeq(Seg, StructureEnd + 1, Len(Seg))
               hs   == {k \in 1..Len(rest) : rest[k].t = "### File: "}
           IN  /\ (files = <<>>) <=> (rest = <<>>)
               /\ files # <<>> =>
                     /\ rest[1] = Text("## File Contents")
                     /\ Cardinality(hs) = Len(files)
                     /\ \A k \in 1..Len(files) :
                           \E q \in hs :
                              /\ rest[q] = Header(files[k])
                              /\ Cardinality({j \in hs : j < q}) = k - 1
                              /\ Block(rest, q)[Len(Block(rest, q))]
                                    = Text("fence end")

(***************************************************************************)
(* C8  The version-control part                                            *)
(***************************************************************************)
GitDirUnderRoot ==
    \E k \in 1..Len(RootNode.kids) :
        RootNode.kids[k].name = DotGit /\ RootNode.kids[k].node.kind = "dir"

\* C8: the segment of every directory root holds exactly one of the two
\* version-control outputs: the Git heading if an entry named .git that is
\* a directory lies directly under the root, the notice otherwise.
C8_VcsPart ==
    InDir =>
        /\ CountOf(Seg, "## Git Info") + CountOf(Seg, "Not a git repository") = 1
        /\ GitDirUnderRoot <=> CountOf(Seg, "## Git Info") = 1

(***************************************************************************)
(* C1  Depth-first order, each level sorted by file name                   *)
(***************************************************************************)
\* the directories the walk of the current root enters
WalkedDirs ==
    {[p |-> Target, node |-> RootNode]}
    \cup {e \in Descendants(Target, RootNode) : e.node.kind = "dir"}

\* C1: when a directory root has been walked, for all entries x and y of
\* one directory with filename(x) < filename(y) that are directories or
\* regular files: the lines of x and of everything below x are in the
\* structure section before the lines of y and of everything below y, and
\* every regular file at or below x is in the flattened list before every
\* regular file at or below y.
C1_SortedDepthFirst ==
    pc = "files" =>
        \A d \in WalkedDirs :
          \A x, y \in 1..Len(d.node.kids) :
            LET ex == d.node.kids[x]
                ey == d.node.kids[y]
                px == Append(d.p, ex.name)
                py == Append(d.p, ey.name)
            IN  (LexLess(ex.name, ey.name) /\ Listed(ex.node) /\ Listed(ey.node))
                =>
                /\ LinesUnder(px) # {} /\ LinesUnder(py) # {}
                /\ \A a \in LinesUnder(px), b \in LinesUnder(py) : a < b
                /\ \A a \in FilesUnder(px), b \in FilesUnder(py) : a < b
                /\ \A q \in RegularAt(px, ex.node) \cup RegularAt(py, ey.node) :
                      \E k \in 1..Len(files) : files[k] = q

(***************************************************************************)
(* C10  The two traversals agree                                           *)
(***************************************************************************)
RECURSIVE SelectSeq2(_, _)
SelectSeq2(seq, tag) ==
    IF seq = <<>> THEN <<>>
    ELSE IF Head(seq).t = tag THEN <<Head(seq).p>> \o SelectSeq2(Tail(seq), tag)
    ELSE SelectSeq2(Tail(seq), tag)

\* C10: when print_dir has finished a directory root, the regular-file
\* lines of its structure section, read top to bottom, are the collected
\* files in the same order, and every one of those files has exactly one
\* block, closed by its fence, in the file-contents section.  (Stated for
\* roots whose segment was begun on a stream that was still good.)
C10_TraversalsAgree ==
    (DirDone /\ Seg # <<>>) =>
        /\ SelectSeq2(Seg, "entry") = files
        /\ \A k \in 1..Len(files) :
              /\ Cardinality(HeaderPositions(Seg, files[k])) = 1
              /\ \A q \in HeaderPositions(Seg, files[k]) :
                    Block(Seg, q)[Len(Block(Seg, q))] = Text("fence end")
        /\ SelectSeq2(Seg, "### File: ") = files

(***************************************************************************)
(* C4  A missing target                                                    *)
(***************************************************************************)
FirstShuffle == [rot |-> 0, rev |-> FALSE]

\* What one target alone adds to a fresh report.
SegmentOf(name) ==
    process_target([out |-> GoodStream, err |-> <<>>], <<name>>,
                   FirstShuffle).out.buf

RECURSIVE ConcatSegments(_)
ConcatSegments(ps) ==
    IF ps = <<>> THEN <<>>
    ELSE (IF pexists(<<Head(ps)>>) THEN SegmentOf(Head(ps)) ELSE <<>>)
         \o ConcatSegments(Tail(ps))

\* C4: a run whose arguments are positional targets only ends with status
\* 0, with one diagnostic on the error stream per target that does not
\* exist, and with a standard output that is the concatenation, in argument
\* order, of the segments of the targets that exist.
C4_MissingTargetSkipped ==
    (pc = "exit" /\ argv # <<>> /\ \A k \in 1..Len(argv) : ~IsOption(argv[k]))
    =>
        /\ status = 0
        /\ CountOf(err, "is not a valid directory or file")
              = Cardinality({k \in 1..Len(argv) : ~pexists(<<argv[k]>>)})
        /\ cout = ConcatSegments(argv)

====
